---- MODULE Spec2Model ----
(***************************************************************************)
(* Model of midi_server.py: MidiPort (a handle on one hardware MIDI port   *)
(* with a FIFO of received messages), MidiServer (the registry of handles, *)
(* guarded by one lock), the rtmidi callback that appends to the FIFO, and *)
(* the request threads that open, close, send and drain.                   *)
(*                                                                         *)
(* Port names are sequences of characters, so that `port_name in port`     *)
(* is a real substring test.  A message is the stamp of its arrival on its *)
(* handle (1, 2, ...), so that order, loss and duplication are visible.    *)
(***************************************************************************)
EXTENDS Integers, Sequences, FiniteSets, TLC

\* ------------------------------------------------------------------ bounds
MaxHandles == 2       \* MidiPort objects that enter the registry in one run
MaxArrivals == 2      \* messages the driver delivers in one run, all handles together
MaxTimeout == 1       \* the largest timeout a caller passes, in clock ticks
MaxSent == 1          \* frames forwarded to the hardware

\* ------------------------------------------------------------------ inputs
Threads == {"t1", "t2"}
Ids == {"p", "q"}
Types == {"input", "output"}
X == <<"x">>
XY == <<"x", "y">>
Y == <<"y">>
Z == <<"z">>
ReqNames == {Y, Z}
Frames == {<<144, 60, 127>>}
Timeouts == 0..MaxTimeout
\* data.get('name') and data.get('type') when the field is absent or empty:
\* None and '' are both false under `not`
NoName == <<>>
NoType == ""
\* request.json of a POST /port/<port_id>: the well-formed bodies, and one
\* without name, one without type, one with a type that is no direction
Bodies ==
    [name : ReqNames, type : Types]
       \cup {[name |-> NoName, type |-> "input"],
             [name |-> Y, type |-> NoType],
             [name |-> Y, type |-> "thru"]}
\* the ports of the Launch Control XL3 as the driver names them; the device's
\* In ports are outputs of the host and its Out ports are inputs of the host
LCXL3_MIDI_IN == <<"LCXL3 1 ", "MIDI ", "In">>
LCXL3_MIDI_OUT == <<"LCXL3 1 ", "MIDI ", "Out">>
LCXL3_DAW_IN == <<"LCXL3 1 ", "DAW ", "In">>
LCXL3_DAW_OUT == <<"LCXL3 1 ", "DAW ", "Out">>

\* no handle: the thread is not inside MidiPort.get_messages
NoHandle == 0
\* threading.Lock() not held
Unlocked == "unlocked"

VARIABLES
    handles,    \* the MidiPort objects that were registered, by creation order
    ports,      \* MidiServer.ports: port_id -> handle
    lock,       \* MidiServer.lock: Unlocked or the thread holding it
    pc,         \* where each request thread is in get_messages
    frame,      \* the locals of a thread inside get_messages
    wire,       \* frames the driver was given by send, with the port index
    arrivals,   \* per handle: how many messages the driver has delivered
    delivered,  \* per handle: the drain results so far, concatenated in call order
    run,        \* the request thread inside test_lcxl3: its position and locals
    device      \* the Launch Control XL3: which of its ports are plugged in,
                \* the requests it has answered, the replies it is sending

\* the variables of test_lcxl3 and of the device it talks to
ovars == <<run, device>>

vars == <<handles, ports, lock, pc, frame, wire, arrivals, delivered,
          run, device>>

\* the device's ports in the driver's enumeration, by host direction
DevicePorts(port_type) ==
    IF device.plugged = "all"
    THEN IF port_type = "input" THEN <<LCXL3_MIDI_OUT, LCXL3_DAW_OUT>>
                                ELSE <<LCXL3_MIDI_IN, LCXL3_DAW_IN>>
    ELSE IF device.plugged = "midi"
    THEN IF port_type = "input" THEN <<LCXL3_MIDI_OUT>> ELSE <<LCXL3_MIDI_IN>>
    ELSE <<>>

\* self.midi_obj.get_ports(): the driver's enumeration of hardware ports, per
\* direction, the same through one run
get_ports(port_type) ==
    (IF port_type = "input" THEN <<X, XY, Y>> ELSE <<XY>>)
       \o DevicePorts(port_type)

\* ----------------------------------------------------------------- helpers
\* Python's `sub in s` on strings
Contains(sub, s) ==
    \E i \in 0..(Len(s) - Len(sub)) : SubSeq(s, i + 1, i + Len(sub)) = sub

\* the arrival sequence of a handle that received n messages
Stamps(n) == [i \in 1..n |-> i]

RECURSIVE SumTo(_, _)
SumTo(f, n) == IF n = 0 THEN 0 ELSE f[n] + SumTo(f, n - 1)

IsPrefix(s, t) == Len(s) <= Len(t) /\ SubSeq(t, 1, Len(s)) = s

\* self.port_index = None
NoIndex == -1

\* the search with `==` where the code has `in`
RECURSIVE FindPortExact(_, _, _)
FindPortExact(port_name, hwports, i) ==
    IF i > Len(hwports) THEN NoIndex
    ELSE IF port_name = hwports[i] THEN i - 1
    ELSE FindPortExact(port_name, hwports, i + 1)

\* the for loop of MidiPort.open: the first index whose name contains port_name,
\* or None; indices are Python's (0-based)
RECURSIVE FindPort(_, _, _)
FindPort(port_name, hwports, i) ==
    IF i > Len(hwports) THEN NoIndex
    ELSE IF Contains(port_name, hwports[i]) THEN i - 1
    ELSE FindPort(port_name, hwports, i + 1)

\* MidiPort.open() raises ValueError
OpenRaises(port_name, hwports) == FindPort(port_name, hwports, 1) = NoIndex

\* MidiPort.__init__ followed by a MidiPort.open() that did not raise
MidiPort_open(port_name, port_type, hwports) ==
    [ port_name     |-> port_name,
      port_type     |-> port_type,
      port_index    |-> FindPort(port_name, hwports, 1),
      message_queue |-> <<>>,
      is_open       |-> TRUE ]

\* MidiPort.close(): midi_obj is set on every handle that reached the registry
MidiPort_close(h) == [h EXCEPT !.is_open = FALSE]

\* send without the direction check
MidiPort_sendAnyDirection(h) ==
    IF ~h.is_open THEN "NotOpen" ELSE "ok"

\* MidiPort.send(): "ok", or the ValueError it raises
MidiPort_send(h) ==
    IF h.port_type # "output" THEN "InvalidDirection"
    ELSE IF ~h.is_open THEN "NotOpen"
    ELSE "ok"

\* messages.insert(0, msg)
CollectFront(messages, msg) == <<msg>> \o messages

\* messages.append(msg)
Collect(messages, msg) == Append(messages, msg)

\* message_queue.put(list(message))
Put(q, msg) == Append(q, msg)

\* remaining = max(1, deadline - time.time())
RemainingAtLeastOne(timeout, left) == IF left > 0 THEN left ELSE 1

\* remaining = max(0, deadline - time.time()) if timeout > 0 else 0, where
\* left is deadline - time.time()
Remaining(timeout, left) ==
    IF timeout > 0 THEN (IF left > 0 THEN left ELSE 0) ELSE 0

\* port: the handle being drained; left: deadline - time.time();
\* startQ, a0: the inbox and the arrival count when the drain began
NoFrame == [port_id |-> "", timeout |-> 0, port |-> NoHandle, messages |-> <<>>,
            left |-> 0, startQ |-> <<>>, a0 |-> 0]

\* current_slot = None
NoSlot == -1000
\* no request is inside test_lcxl3; opened records which open_port calls
\* returned True (the code drops the return values)
NoRun ==
    [pc |-> 0, results |-> <<>>, current_slot |-> NoSlot, opened |-> {},
     ret |-> "none"]
\* no Launch Control XL3 on the bus
Unplugged ==
    [plugged |-> "none", seen |-> [midi |-> 0, daw |-> 0],
     pend |-> [midi |-> <<>>, daw |-> <<>>]]

Init ==
    /\ handles = <<>>
    /\ ports = <<>>
    /\ lock = Unlocked
    /\ pc = [t \in Threads |-> "idle"]
    /\ frame = [t \in Threads |-> NoFrame]
    /\ wire = <<>>
    /\ arrivals = <<>>
    /\ delivered = <<>>
    /\ run = NoRun
    /\ device = Unplugged

\* ---------------------------------------------------------- the environment
\* the clock advances; only a drain in progress reads it
Tick ==
    /\ \E t \in Threads :
          /\ pc[t] \in {"loop", "blocked"}
          /\ frame[t].left > 0
          /\ frame' = [frame EXCEPT ![t].left = @ - 1]
    /\ UNCHANGED <<handles, ports, lock, pc, wire, arrivals,
                   delivered, ovars>>

\* a callback that has to take MidiServer.lock before it appends
on_message_under_lock(h) ==
    /\ lock = Unlocked
    /\ handles[h].port_type = "input"
    /\ handles[h].is_open
    /\ SumTo(arrivals, Len(arrivals)) < MaxArrivals
    /\ arrivals' = [arrivals EXCEPT ![h] = @ + 1]
    /\ handles' = [handles EXCEPT
                     ![h].message_queue = Put(@, arrivals[h] + 1)]
    /\ UNCHANGED <<ports, lock, pc, frame, wire, delivered, ovars>>

\* MidiPort._on_message, run by the driver's thread for an open input port
on_message(h) ==
    /\ handles[h].port_type = "input"
    /\ handles[h].is_open
    /\ SumTo(arrivals, Len(arrivals)) < MaxArrivals
    /\ arrivals' = [arrivals EXCEPT ![h] = @ + 1]
    /\ handles' = [handles EXCEPT
                     ![h].message_queue = Put(@, arrivals[h] + 1)]
    /\ UNCHANGED <<ports, lock, pc, frame, wire, delivered, ovars>>

\* ------------------------------------------------------------- MidiServer
\* open_port without the close of the prior handle
OpenPortHandlesNoClose(port_id, port_name, port_type) ==
    IF OpenRaises(port_name, get_ports(port_type)) THEN handles
    ELSE Append(handles, MidiPort_open(port_name, port_type, get_ports(port_type)))

\* open_port that hands the prior handle's inbox over to the new handle
OpenPortHandlesKeepInbox(port_id, port_name, port_type) ==
    LET closed == IF port_id \in DOMAIN ports
                  THEN [handles EXCEPT ![ports[port_id]] = MidiPort_close(@)]
                  ELSE handles
        fresh == MidiPort_open(port_name, port_type, get_ports(port_type))
    IN  IF OpenRaises(port_name, get_ports(port_type)) THEN closed
        ELSE Append(closed,
                    IF port_id \in DOMAIN ports
                    THEN [fresh EXCEPT !.message_queue =
                                   handles[ports[port_id]].message_queue]
                    ELSE fresh)

\* the handles after open_port's body
OpenPortHandles(port_id, port_name, port_type) ==
    LET closed == IF port_id \in DOMAIN ports
                  THEN [handles EXCEPT ![ports[port_id]] = MidiPort_close(@)]
                  ELSE handles
    IN  IF OpenRaises(port_name, get_ports(port_type)) THEN closed
        ELSE Append(closed, MidiPort_open(port_name, port_type, get_ports(port_type)))

\* self.ports after open_port's body
OpenPortPorts(port_id, port_name, port_type) ==
    IF OpenRaises(port_name, get_ports(port_type)) THEN ports
    ELSE [i \in DOMAIN ports \cup {port_id} |->
            IF i = port_id THEN Len(handles) + 1 ELSE ports[i]]

\* what open_port returns: True unless port.open() raised
OpenPortReturn(port_name, port_type) == ~OpenRaises(port_name, get_ports(port_type))

open_port(port_id, port_name, port_type) ==
    /\ lock = Unlocked
    /\ OpenPortReturn(port_name, port_type) => Len(handles) < MaxHandles
    /\ handles' = OpenPortHandles(port_id, port_name, port_type)
    /\ ports' = OpenPortPorts(port_id, port_name, port_type)
    /\ arrivals' = [h \in 1..Len(handles') |->
                      IF h <= Len(handles) THEN arrivals[h] ELSE 0]
    /\ delivered' = [h \in 1..Len(handles') |->
                      IF h <= Len(handles) THEN delivered[h] ELSE <<>>]
    /\ UNCHANGED <<lock, pc, frame, wire, ovars>>

\* the handles after close_port's body
ClosePortHandles(port_id) ==
    IF port_id \in DOMAIN ports
    THEN [handles EXCEPT ![ports[port_id]] = MidiPort_close(@)]
    ELSE handles

\* close_port without `del self.ports[port_id]`
ClosePortPortsKeep(port_id) == ports

\* self.ports after close_port's body
ClosePortPorts(port_id) ==
    IF port_id \in DOMAIN ports
    THEN [i \in DOMAIN ports \ {port_id} |-> ports[i]]
    ELSE ports

\* what close_port returns
ClosePortReturn(port_id) == port_id \in DOMAIN ports

close_port(port_id) ==
    /\ lock = Unlocked
    /\ handles' = ClosePortHandles(port_id)
    /\ ports' = ClosePortPorts(port_id)
    /\ UNCHANGED <<lock, pc, frame, wire, arrivals, delivered, ovars>>

\* what send_message returns: False for an unknown identifier and when
\* MidiPort.send raises
SendReturn(port_id) ==
    /\ port_id \in DOMAIN ports
    /\ MidiPort_send(handles[ports[port_id]]) = "ok"

\* the frames the driver has been given after send_message's body
SendWire(port_id, message) ==
    IF SendReturn(port_id)
    THEN Append(wire, <<handles[ports[port_id]].port_index, message>>)
    ELSE wire

send_message(port_id, message) ==
    /\ lock = Unlocked
    /\ SendReturn(port_id) => Len(wire) < MaxSent
    /\ wire' = SendWire(port_id, message)
    /\ UNCHANGED <<handles, ports, lock, pc, frame, arrivals, delivered,
                   ovars>>

\* ------------------------------------------- MidiServer.get_messages, by step
\* the lookup that keeps the lock when the identifier is unknown
LookupKeepsLock(t, port_id, timeout) ==
    /\ pc' = [pc EXCEPT ![t] = "idle"]
    /\ frame' = [frame EXCEPT ![t] = NoFrame]
    /\ lock' = IF port_id \notin DOMAIN ports THEN t ELSE lock

\* inside `with self.lock`: the lookup; an unknown identifier returns [] at once,
\* a known one enters MidiPort.get_messages with the lock held
Lookup(t, port_id, timeout) ==
    IF port_id \notin DOMAIN ports
    THEN /\ pc' = [pc EXCEPT ![t] = "idle"]
         /\ frame' = [frame EXCEPT ![t] = NoFrame]
         /\ lock' = lock
    ELSE LET h == ports[port_id] IN
         /\ pc' = [pc EXCEPT ![t] = "loop"]
         /\ lock' = t
         /\ frame' = [frame EXCEPT ![t] =
                        [port_id |-> port_id, timeout |-> timeout, port |-> h,
                         messages |-> <<>>, left |-> timeout,
                         startQ |-> handles[h].message_queue,
                         a0 |-> arrivals[h]]]

\* a request thread calls get_messages(port_id, timeout): it takes the lock if it
\* is free, and waits at `with self.lock` if another thread holds it
get_messages_call(t, port_id, timeout) ==
    /\ pc[t] = "idle"
    /\ IF lock = Unlocked
       THEN Lookup(t, port_id, timeout)
       ELSE /\ pc' = [pc EXCEPT ![t] = "acquire"]
            /\ UNCHANGED <<frame, lock>>
    /\ UNCHANGED <<handles, ports, wire, arrivals, delivered, ovars>>

\* the thread waiting at `with self.lock` gets the lock; nothing reads the
\* arguments of its call before that, so they are drawn here
get_messages_lock(t, port_id, timeout) ==
    /\ pc[t] = "acquire"
    /\ lock = Unlocked
    /\ Lookup(t, port_id, timeout)
    /\ UNCHANGED <<handles, ports, wire, arrivals, delivered, ovars>>

\* a get that leaves the message in the queue
DequeueKeep(q) == q

\* what message_queue.get() leaves in the queue
Dequeue(q) == Tail(q)

\* msg = self.message_queue.get(...); messages.append(msg)
TakeMessage(t) ==
    LET h == frame[t].port IN
    /\ handles' = [handles EXCEPT ![h].message_queue = Dequeue(@)]
    /\ frame' = [frame EXCEPT ![t].messages =
                   Collect(@, Head(handles[h].message_queue))]
    /\ pc' = [pc EXCEPT ![t] = "loop"]
    /\ UNCHANGED <<lock, delivered>>

\* queue.Empty: break, return messages, leave `with self.lock`
ReturnMessages(t) ==
    LET h == frame[t].port IN
    /\ delivered' = [delivered EXCEPT ![h] = @ \o frame[t].messages]
    /\ lock' = Unlocked
    /\ pc' = [pc EXCEPT ![t] = "idle"]
    /\ frame' = [frame EXCEPT ![t] = NoFrame]
    /\ UNCHANGED handles

\* one pass of the while loop up to queue.get: a queued message is taken; on an
\* empty inbox the get raises Empty when remaining is 0 and blocks otherwise
queue_get(t) ==
    /\ pc[t] = "loop"
    /\ IF handles[frame[t].port].message_queue # <<>>
       THEN TakeMessage(t)
       ELSE IF Remaining(frame[t].timeout, frame[t].left) > 0
       THEN /\ pc' = [pc EXCEPT ![t] = "blocked"]
            /\ UNCHANGED <<handles, frame, lock, delivered>>
       ELSE ReturnMessages(t)
    /\ UNCHANGED <<ports, wire, arrivals, ovars>>

\* the thread blocked inside queue.get wakes: on a put it takes the message,
\* at the deadline the get raises Empty
queue_wake(t) ==
    /\ pc[t] = "blocked"
    /\ IF handles[frame[t].port].message_queue # <<>>
       THEN TakeMessage(t)
       ELSE /\ frame[t].left = 0
            /\ ReturnMessages(t)
    /\ UNCHANGED <<ports, wire, arrivals, ovars>>

\* ------------------------------------------------ the route /port/<port_id>
\* the first test alone
BadRequestFieldsOnly(port_name, port_type) ==
    \/ port_name = NoName
    \/ port_type = NoType

\* `not port_name or not port_type`, then `port_type not in ['input', 'output']`
BadRequest(port_name, port_type) ==
    \/ port_name = NoName
    \/ port_type = NoType
    \/ port_type \notin Types

\* POST /port/<port_id>: 400 before midi_server.open_port is called, else the
\* call (200 or 500 by its return value)
open_port_route(port_id, data) ==
    IF BadRequest(data.name, data.type)
    THEN UNCHANGED vars
    ELSE open_port(port_id, data.name, data.type)

Next ==
    \/ Tick
    \/ \E h \in 1..Len(handles) : on_message(h)
    \/ \E i \in Ids, data \in Bodies : open_port_route(i, data)
    \/ \E i \in Ids : close_port(i)
    \/ \E i \in Ids, m \in Frames : send_message(i, m)
    \/ \E t \in Threads, i \in Ids, T \in Timeouts : get_messages_call(t, i, T)
    \/ \E t \in Threads, i \in Ids, T \in Timeouts : get_messages_lock(t, i, T)
    \/ \E t \in Threads : queue_get(t)
    \/ \E t \in Threads : queue_wake(t)

Spec == Init /\ [][Next]_vars

\* ============================================================== test_lcxl3
\* the identifiers the run opens
OrchIds == {"midi_out", "midi_in", "daw_out", "daw_in"}

\* ----------------------------------------------------- frames the run sends
\* [0xF0, 0x00, 0x20, 0x29, 0x00, 0x42, 0x02, 0xF7]
INQUIRY == <<240, 0, 32, 41, 0, 66, 2, 247>>
\* [0x9F, 11, 127] and [0x9F, 11, 0]
SHIFT_ON == <<159, 11, 127>>
SHIFT_OFF == <<159, 11, 0>>
\* [0xB7, 30, 0]
QUERY == <<183, 30, 0>>
\* [0xB6, 30, cc_value] with cc_value = slot + 6
SetSlot(slot) == <<182, 30, slot + 6>>
\* read_msg
ReadRequest(slot) == <<240, 0, 32, 41, 2, 21, 5, 0, 64, 0, slot, 247>>

\* -------------------------------------------- the statements of the try block
Stmt(op, port_id, arg, slot) ==
    [op |-> op, port_id |-> port_id, arg |-> arg, slot |-> slot]

Send(port_id, message, slot) == Stmt("send", port_id, message, slot)

\* the four midi_server.open_port calls
Opening ==
    << Stmt("open", "midi_out", [name |-> LCXL3_MIDI_IN, type |-> "output"], NoSlot),
       Stmt("open", "midi_in", [name |-> LCXL3_MIDI_OUT, type |-> "input"], NoSlot),
       Stmt("open", "daw_out", [name |-> LCXL3_DAW_IN, type |-> "output"], NoSlot),
       Stmt("open", "daw_in", [name |-> LCXL3_DAW_OUT, type |-> "input"], NoSlot) >>

\* Test 1: send the inquiry, drain midi_in and look for the reply
Handshaking ==
    << Send("midi_out", INQUIRY, NoSlot),
       Stmt("handshake", "midi_in", <<>>, NoSlot) >>

\* a pass that reads the slot before it selects it
SlotBodyReadFirst(slot) ==
    << Send("daw_out", SHIFT_ON, slot),
       Send("daw_out", QUERY, slot),
       Stmt("query", "daw_in", <<>>, slot),
       Send("daw_out", SHIFT_OFF, slot),
       Send("midi_out", ReadRequest(slot), slot),
       Stmt("read", "midi_in", <<>>, slot),
       Send("daw_out", SHIFT_ON, slot),
       Send("daw_out", SetSlot(slot), slot),
       Send("daw_out", SHIFT_OFF, slot) >>

\* one pass of `for slot in range(3)`
SlotBody(slot) ==
    << Send("daw_out", SHIFT_ON, slot),
       Send("daw_out", QUERY, slot),
       Stmt("query", "daw_in", <<>>, slot),
       Send("daw_out", SHIFT_OFF, slot),
       Send("daw_out", SHIFT_ON, slot),
       Send("daw_out", SetSlot(slot), slot),
       Send("daw_out", SHIFT_OFF, slot),
       Send("midi_out", ReadRequest(slot), slot),
       Stmt("read", "midi_in", <<>>, slot) >>

SlotLoop == SlotBody(0) \o SlotBody(1) \o SlotBody(2)

\* the four midi_server.close_port calls and the return of the try block
Cleanup ==
    << Stmt("close", "midi_out", <<>>, NoSlot),
       Stmt("close", "midi_in", <<>>, NoSlot),
       Stmt("close", "daw_out", <<>>, NoSlot),
       Stmt("close", "daw_in", <<>>, NoSlot),
       Stmt("return", "", <<>>, NoSlot) >>

Program == Opening \o Handshaking \o SlotLoop \o Cleanup

\* the request has returned
Done == Len(Program) + 1

\* the statement the run is at
At(op) ==
    /\ run.pc \in 1..Len(Program)
    /\ Program[run.pc].op = op

\* ------------------------------------------- what the run does with replies
\* the same from resp[6:-1]
SerialFromByte6(resp) ==
    SelectSeq(SubSeq(resp, 7, Len(resp) - 1), LAMBDA b : b < 128)

\* ''.join(chr(b) for b in resp[7:-1] if b < 128), as code points
Serial(resp) == SelectSeq(SubSeq(resp, 8, Len(resp) - 1), LAMBDA b : b < 128)


RECURSIVE LStrip(_)
LStrip(text) ==
    IF text # <<>> /\ Head(text) = 32 THEN LStrip(Tail(text)) ELSE text

RECURSIVE RStrip(_)
RStrip(text) ==
    IF text # <<>> /\ text[Len(text)] = 32
    THEN RStrip(SubSeq(text, 1, Len(text) - 1)) ELSE text

\* ''.join(chr(b) for b in resp[14:30] if 32 <= b < 127).strip()
SlotName(resp) ==
    LStrip(RStrip(SelectSeq(SubSeq(resp, 15, 30),
                            LAMBDA b : 32 <= b /\ b < 127)))

\* the entries of results
HandshakeOK(serial) ==
    [kind |-> "Handshake OK - Serial", slot |-> NoSlot, current |-> NoSlot,
     text |-> serial]
SlotLine(slot, current_slot, name) ==
    [kind |-> "Slot", slot |-> slot, current |-> current_slot, text |-> name]

\* the loop over responses of Test 1: raised on an IndexError, else whether a
\* reply was found and the serial decoded from the first one
RECURSIVE ScanHandshake(_)
ScanHandshake(responses) ==
    IF responses = <<>>
    THEN [raised |-> FALSE, found |-> FALSE, serial |-> <<>>]
    ELSE LET resp == Head(responses) IN
         IF Len(resp) = 0
         THEN [raised |-> TRUE, found |-> FALSE, serial |-> <<>>]
         ELSE IF resp[1] = 240 /\ Len(resp) > 7
         THEN [raised |-> FALSE, found |-> TRUE, serial |-> Serial(resp)]
         ELSE ScanHandshake(Tail(responses))

\* the loop over daw_responses: resp[0], resp[1] and resp[2] are read without a
\* length test
RECURSIVE ScanQuery(_)
ScanQuery(daw_responses) ==
    IF daw_responses = <<>>
    THEN [raised |-> FALSE, current_slot |-> NoSlot]
    ELSE LET resp == Head(daw_responses) IN
         IF Len(resp) = 0
         THEN [raised |-> TRUE, current_slot |-> NoSlot]
         ELSE IF resp[1] # 182
         THEN ScanQuery(Tail(daw_responses))
         ELSE IF Len(resp) < 2
         THEN [raised |-> TRUE, current_slot |-> NoSlot]
         ELSE IF resp[2] # 30
         THEN ScanQuery(Tail(daw_responses))
         ELSE IF Len(resp) < 3
         THEN [raised |-> TRUE, current_slot |-> NoSlot]
         ELSE [raised |-> FALSE, current_slot |-> resp[3] - 6]

\* the loop over responses of the slot read: the first reply with 0xF0,
\* len > 20 and resp[8] == 0x10 ends the loop; it gives a name if len > 30
RECURSIVE ScanRead(_)
ScanRead(responses) ==
    IF responses = <<>>
    THEN [raised |-> FALSE, named |-> FALSE, name |-> <<>>]
    ELSE LET resp == Head(responses) IN
         IF Len(resp) = 0
         THEN [raised |-> TRUE, named |-> FALSE, name |-> <<>>]
         ELSE IF resp[1] = 240 /\ Len(resp) > 20 /\ resp[9] = 16
         THEN IF Len(resp) > 30
              THEN [raised |-> FALSE, named |-> TRUE, name |-> SlotName(resp)]
              ELSE [raised |-> FALSE, named |-> FALSE, name |-> <<>>]
         ELSE ScanRead(Tail(responses))

\* ------------------------------------------------------- the run, by statement
\* a handler without the except clause: the exception ends the request
RaiseUncaught == [run EXCEPT !.pc = Done, !.ret = "crash"]

\* the except clause: return {'success': False, 'error': str(e)}, 500
Raise == [run EXCEPT !.pc = Done, !.ret = "error"]

\* midi_server.get_messages(port_id) with the default timeout 0: what it returns
InboxOf(port_id) ==
    IF port_id \in DOMAIN ports
    THEN handles[ports[port_id]].message_queue ELSE <<>>

\* midi_server.get_messages(port_id) with the default timeout 0: the inbox is
\* emptied into the result
get_messages_now(port_id) ==
    /\ lock = Unlocked
    /\ handles' = IF port_id \in DOMAIN ports
                  THEN [handles EXCEPT ![ports[port_id]].message_queue = <<>>]
                  ELSE handles
    /\ delivered' = IF port_id \in DOMAIN ports
                    THEN [delivered EXCEPT ![ports[port_id]] = @ \o InboxOf(port_id)]
                    ELSE delivered

\* midi_server.open_port(...): the return value is dropped
orch_open ==
    /\ At("open")
    /\ lock = Unlocked
    /\ LET st == Program[run.pc] IN
       /\ handles' = OpenPortHandles(st.port_id, st.arg.name, st.arg.type)
       /\ ports' = OpenPortPorts(st.port_id, st.arg.name, st.arg.type)
       /\ run' = [run EXCEPT !.pc = @ + 1,
                             !.opened = IF OpenPortReturn(st.arg.name, st.arg.type)
                                        THEN @ \cup {st.port_id} ELSE @]
    /\ arrivals' = [h \in 1..Len(handles') |->
                      IF h <= Len(handles) THEN arrivals[h] ELSE 0]
    /\ delivered' = [h \in 1..Len(handles') |->
                      IF h <= Len(handles) THEN delivered[h] ELSE <<>>]
    /\ UNCHANGED <<lock, pc, frame, wire, device>>

\* midi_server.send_message(...): the return value is dropped
orch_send ==
    /\ At("send")
    /\ lock = Unlocked
    /\ wire' = SendWire(Program[run.pc].port_id, Program[run.pc].arg)
    /\ run' = [run EXCEPT !.pc = @ + 1]
    /\ UNCHANGED <<handles, ports, lock, pc, frame, arrivals, delivered, device>>

\* responses = midi_server.get_messages('midi_in') and the loop of Test 1
orch_handshake ==
    /\ At("handshake")
    /\ get_messages_now(Program[run.pc].port_id)
    /\ LET scan == ScanHandshake(InboxOf(Program[run.pc].port_id)) IN
       run' = IF scan.raised THEN Raise
              ELSE [run EXCEPT !.pc = @ + 1,
                               !.results = IF scan.found
                                           THEN Append(@, HandshakeOK(scan.serial))
                                           ELSE @]
    /\ UNCHANGED <<ports, lock, pc, frame, wire, arrivals, device>>

\* daw_responses = midi_server.get_messages('daw_in'), current_slot = None and
\* the loop over daw_responses
orch_query ==
    /\ At("query")
    /\ get_messages_now(Program[run.pc].port_id)
    /\ LET scan == ScanQuery(InboxOf(Program[run.pc].port_id)) IN
       run' = IF scan.raised THEN Raise
              ELSE [run EXCEPT !.pc = @ + 1,
                               !.current_slot = scan.current_slot]
    /\ UNCHANGED <<ports, lock, pc, frame, wire, arrivals, device>>

\* responses = midi_server.get_messages('midi_in') and the loop of the slot read
orch_read ==
    /\ At("read")
    /\ get_messages_now(Program[run.pc].port_id)
    /\ LET scan == ScanRead(InboxOf(Program[run.pc].port_id)) IN
       run' = IF scan.raised THEN Raise
              ELSE [run EXCEPT !.pc = @ + 1,
                               !.results =
                                  IF scan.named
                                  THEN Append(@, SlotLine(Program[run.pc].slot,
                                                          run.current_slot,
                                                          scan.name))
                                  ELSE @]
    /\ UNCHANGED <<ports, lock, pc, frame, wire, arrivals, device>>

\* midi_server.close_port(...)
orch_close ==
    /\ At("close")
    /\ lock = Unlocked
    /\ handles' = ClosePortHandles(Program[run.pc].port_id)
    /\ ports' = ClosePortPorts(Program[run.pc].port_id)
    /\ run' = [run EXCEPT !.pc = @ + 1]
    /\ UNCHANGED <<lock, pc, frame, wire, arrivals, delivered, device>>

\* return jsonify({'success': True, 'results': results})
orch_return ==
    /\ At("return")
    /\ run' = [run EXCEPT !.pc = Done, !.ret = "success"]
    /\ UNCHANGED <<handles, ports, lock, pc, frame, wire, arrivals, delivered,
                   device>>

\* ------------------------------------------------- the Launch Control XL3
\* the device's two channels
Channels == {"midi", "daw"}
\* the host output that reaches the channel, and the host input it answers on
InName(ch) == IF ch = "midi" THEN LCXL3_MIDI_IN ELSE LCXL3_DAW_IN
OutName(ch) == IF ch = "midi" THEN LCXL3_MIDI_OUT ELSE LCXL3_DAW_OUT

\* frames the device sends: a SysEx too short to be a reply, two identity
\* replies (the first with a byte above 127 in the serial), a slot dump of 31
\* bytes with the name " S<slot> ", the slot CC and a CC cut after its
\* controller number
SHORT_SYSEX == <<240, 126, 247>>
IDENTITY_A == <<240, 0, 32, 41, 0, 66, 2, 65, 200, 66, 247>>
IDENTITY_B == <<240, 0, 32, 41, 0, 66, 2, 67, 247>>
SlotData(slot) ==
    <<240, 0, 32, 41, 2, 21, 5, 0, 16, 0, 0, 0, 0, 0>>
       \o <<32, 83, 48 + slot, 32, 0, 0, 0, 0, 0, 0, 0, 0, 0, 0, 0, 0>>
       \o <<247>>
SlotCC(v) == <<182, 30, v>>
TRUNCATED_CC == <<182, 30>>
\* the values the device puts in its slot CC
CCValues == {7}

\* what the device may answer to a frame it receives on a channel, as the
\* frames it then sends one by one; a frame that asks nothing has no answer
Replies(ch, message) ==
    IF ch = "midi"
    THEN IF message = INQUIRY
         THEN {<<SHORT_SYSEX, IDENTITY_A, IDENTITY_B>>}
         ELSE UNION {IF message = ReadRequest(slot)
                     THEN {<<SlotData(slot)>>}
                     ELSE {} : slot \in 0..2}
    ELSE IF message = QUERY
         THEN {<<SlotCC(v)>> : v \in CCValues} \cup {<<TRUNCATED_CC>>}
         ELSE {}

\* the k-th frame given to the driver went to the channel ch
AddressedTo(ch, k) ==
    /\ wire[k][1] + 1 \in 1..Len(get_ports("output"))
    /\ get_ports("output")[wire[k][1] + 1] = InName(ch)

\* the open input handles on the port the channel answers on
Listeners(ch) ==
    {h \in 1..Len(handles) :
        /\ handles[h].port_type = "input"
        /\ handles[h].is_open
        /\ get_ports("input")[handles[h].port_index + 1] = OutName(ch)}

\* the device takes up a request it has not answered (it may leave out earlier
\* ones, and may be late) and chooses its answer
device_react(ch) ==
    /\ device.pend[ch] = <<>>
    /\ \E k \in (device.seen[ch] + 1)..Len(wire) :
          /\ AddressedTo(ch, k)
          /\ \E reply \in Replies(ch, wire[k][2]) :
                device' = [device EXCEPT !.seen[ch] = k, !.pend[ch] = reply]
    /\ UNCHANGED <<handles, ports, lock, pc, frame, wire, arrivals, delivered,
                   run>>

\* the device sends the next frame of its answer; the driver calls _on_message
\* of every open handle on that input port
device_deliver(ch) ==
    /\ device.pend[ch] # <<>>
    /\ handles' = [h \in 1..Len(handles) |->
                     IF h \in Listeners(ch)
                     THEN [handles[h] EXCEPT
                             !.message_queue = Put(@, Head(device.pend[ch]))]
                     ELSE handles[h]]
    /\ arrivals' = [h \in 1..Len(handles) |->
                      IF h \in Listeners(ch) THEN arrivals[h] + 1
                      ELSE arrivals[h]]
    /\ device' = [device EXCEPT !.pend[ch] = Tail(@)]
    /\ UNCHANGED <<ports, lock, pc, frame, wire, delivered, run>>

\* a request enters test_lcxl3 on a fresh server, with the device fully
\* plugged in, with only its MIDI ports, or absent
InitOrch ==
    /\ handles = <<>>
    /\ ports = <<>>
    /\ lock = Unlocked
    /\ pc = [t \in Threads |-> "idle"]
    /\ frame = [t \in Threads |-> NoFrame]
    /\ wire = <<>>
    /\ arrivals = <<>>
    /\ delivered = <<>>
    /\ run = [NoRun EXCEPT !.pc = 1]
    /\ device \in {[Unplugged EXCEPT !.plugged = c] : c \in {"all", "midi", "none"}}

NextOrch ==
    \/ orch_open
    \/ orch_send
    \/ orch_handshake
    \/ orch_query
    \/ orch_read
    \/ orch_close
    \/ orch_return
    \/ \E ch \in Channels : device_react(ch)
    \/ \E ch \in Channels : device_deliver(ch)

SpecOrch == InitOrch /\ [][NextOrch]_vars

\* ================================================================== claims
Handles == 1..Len(handles)

InputHandles == {h \in Handles : handles[h].port_type = "input"}

Registered(h) == \E i \in DOMAIN ports : ports[i] = h

Draining(t) == pc[t] \in {"loop", "blocked"}

\* what the drain in progress on handle h has collected so far
Collected(h) ==
    IF \E t \in Threads : Draining(t) /\ frame[t].port = h
    THEN frame[CHOOSE t \in Threads : Draining(t) /\ frame[t].port = h].messages
    ELSE <<>>

\* the step in which thread t's get_messages returns frame[t].messages
DrainReturns(t) == Draining(t) /\ pc'[t] = "idle"

StrictlyIncreasing(s) == \A i, j \in 1..Len(s) : i < j => s[i] < s[j]

\* the stamps a+1 .. b, in order
StampsFrom(a, b) == [k \in 1..(b - a) |-> a + k]

\* C1: on every input handle the drain results, concatenated in call order, are a
\* prefix of the arrival sequence; results, the messages being collected and the
\* inbox together are exactly the arrival sequence (nothing duplicated, reordered
\* or lost); and with no drain in progress and an empty inbox, as after a drain
\* that ran after the last arrival, the results are the whole arrival sequence.
C1_DrainInArrivalOrderExactlyOnce ==
    \A h \in InputHandles :
        /\ IsPrefix(delivered[h], Stamps(arrivals[h]))
        /\ delivered[h] \o Collected(h) \o handles[h].message_queue
              = Stamps(arrivals[h])
        /\ (Collected(h) = <<>> /\ handles[h].message_queue = <<>>)
              => delivered[h] = Stamps(arrivals[h])

\* a second drain is collecting message 2 after an earlier drain returned message 1
C1_Witness ==
    \E t \in Threads :
        /\ pc[t] = "loop"
        /\ frame[t].messages = <<2>>
        /\ delivered[frame[t].port] = <<1>>

\* C2: with request threads draining the same identifier while messages keep
\* arriving, no message is in two results (the results returned so far and the
\* ones being collected share no message and repeat none), and each caller's
\* result is in arrival order.
C2_NoMessageToTwoCallers ==
    /\ \A h \in InputHandles :
          LET all == delivered[h] \o Collected(h)
          IN  \A i, j \in 1..Len(all) : i # j => all[i] # all[j]
    /\ \A t \in Threads : StrictlyIncreasing(frame[t].messages)
    /\ \A t, u \in Threads : (Draining(t) /\ Draining(u)) => t = u

\* one thread is collecting from a handle that already returned a message to an
\* earlier caller, while the other thread waits at the lock with its own drain
C2_Witness ==
    \E t, u \in Threads :
        /\ Draining(t)
        /\ frame[t].messages = <<2>>
        /\ delivered[frame[t].port] = <<1>>
        /\ pc[u] = "acquire"

\* C3: after open_port returns for an identifier that had an entry, whether the
\* new open succeeded or failed, the prior handle is closed and the registry no
\* longer maps the identifier to it.
C3_ReopenDiscardsPrior ==
    [][\A i \in Ids, n \in ReqNames, ty \in Types :
          (open_port(i, n, ty) /\ i \in DOMAIN ports) =>
              /\ ~handles'[ports[i]].is_open
              /\ (i \in DOMAIN ports' => ports'[i] # ports[i])]_vars

\* the indices (1-based) of the hardware ports whose name contains port_name
Matches(port_name, port_type) ==
    {k \in 1..Len(get_ports(port_type)) : Contains(port_name, get_ports(port_type)[k])}

Least(S) == CHOOSE k \in S : \A m \in S : k <= m

\* C4: open_port returns success exactly when some hardware port of the
\* direction has a name containing the requested name; on success the registry
\* maps the identifier to an open handle of that direction bound to the first
\* such port; on failure for an unbound identifier no entry is created.
\* (An open_port step that leaves handles as they are is a failed open that had
\* no open handle to close: it changes nothing at all.)
C4_OpenSucceedsIffPortMatches ==
    [][\/ UNCHANGED handles
       \/ \A i \in Ids, n \in ReqNames, ty \in Types :
             open_port(i, n, ty) =>
                 /\ OpenPortReturn(n, ty) <=> Matches(n, ty) # {}
                 /\ Matches(n, ty) # {} =>
                       /\ i \in DOMAIN ports'
                       /\ handles'[ports'[i]].is_open
                       /\ handles'[ports'[i]].port_type = ty
                       /\ handles'[ports'[i]].port_index = Least(Matches(n, ty)) - 1
                 /\ (Matches(n, ty) = {} /\ i \notin DOMAIN ports) =>
                       i \notin DOMAIN ports']_vars

\* an identifier is bound to an open input handle on the second hardware port:
\* the name is contained in, not equal to, that port's name, and the first port
\* does not match
C4_Witness ==
    \E i \in DOMAIN ports :
        /\ handles[ports[i]].is_open
        /\ handles[ports[i]].port_type = "input"
        /\ handles[ports[i]].port_index = 1

\* C5: a drain with a positive timeout waits only while it has collected no
\* message: it is never blocked in queue.get with a message already collected.
C5_WaitsOnlyWhileNothingCollected ==
    \A t \in Threads : pc[t] = "blocked" => frame[t].messages = <<>>

\* C6: a drain with timeout 0 is never blocked in queue.get; when it returns,
\* its result is the inbox it found followed by what arrived while it collected,
\* in order (so exactly the inbox it found when nothing arrived meanwhile, and
\* empty when that inbox was empty), and the inbox is left empty.
C6_ZeroTimeoutNeverWaits ==
    /\ [](\A t \in Threads :
             (Draining(t) /\ frame[t].timeout = 0) => pc[t] # "blocked")
    /\ [][\A t \in Threads :
             (DrainReturns(t) /\ frame[t].timeout = 0) =>
                 /\ frame[t].messages =
                       frame[t].startQ
                          \o StampsFrom(frame[t].a0, arrivals[frame[t].port])
                 /\ handles'[frame[t].port].message_queue = <<>>]_vars

\* a drain with timeout 0 found message 1 queued and has taken it and message 2,
\* which arrived while it was collecting
C6_Witness ==
    \E t \in Threads :
        /\ pc[t] = "loop"
        /\ frame[t].timeout = 0
        /\ frame[t].startQ = <<1>>
        /\ frame[t].messages = <<1, 2>>

\* C7: send_message on an identifier bound to an input handle, open or closed,
\* returns False because MidiPort.send raises for the direction; no frame reaches
\* the driver and neither the registry nor any handle or inbox changes.
C7_SendOnInputFails ==
    [][\A i \in Ids, m \in Frames :
          (send_message(i, m) /\ i \in DOMAIN ports
             /\ handles[ports[i]].port_type = "input") =>
              /\ ~SendReturn(i)
              /\ MidiPort_send(handles[ports[i]]) = "InvalidDirection"
              /\ wire' = wire
              /\ ports' = ports
              /\ handles' = handles]_vars

\* both identifiers are bound to input handles, one open with a message queued
\* and one closed, and the lock is free: sends to either identifier run here
C7_Witness ==
    /\ lock = Unlocked
    /\ \E i, j \in DOMAIN ports :
          /\ handles[ports[i]].port_type = "input"
          /\ handles[ports[i]].is_open
          /\ handles[ports[i]].message_queue # <<>>
          /\ handles[ports[j]].port_type = "input"
          /\ ~handles[ports[j]].is_open

\* C8: a send or a drain that reaches a closed handle is rejected: the send
\* returns False, raising "Port is not open" on an output handle, and forwards
\* nothing; the drain collects no message, so it returns none and removes none.
C8_ClosedHandleRejects ==
    /\ [](\A t \in Threads :
             (Draining(t) /\ ~handles[frame[t].port].is_open) =>
                 /\ frame[t].messages = <<>>
                 /\ handles[frame[t].port].message_queue = frame[t].startQ)
    /\ [][\A i \in Ids, m \in Frames :
             (send_message(i, m) /\ i \in DOMAIN ports
                /\ ~handles[ports[i]].is_open) =>
                 /\ ~SendReturn(i)
                 /\ handles[ports[i]].port_type = "output" =>
                       MidiPort_send(handles[ports[i]]) = "NotOpen"
                 /\ wire' = wire]_vars

\* C9: close_port returns True exactly when the identifier had an entry;
\* afterwards the identifier has no entry and the handle it had is closed; for an
\* identifier without entry nothing changes; every other entry and every other
\* handle is unchanged.
C9_ClosePort ==
    [][\A i \in Ids :
          close_port(i) =>
              /\ ClosePortReturn(i) <=> i \in DOMAIN ports
              /\ i \notin DOMAIN ports'
              /\ i \in DOMAIN ports => ~handles'[ports[i]].is_open
              /\ i \notin DOMAIN ports => (ports' = ports /\ handles' = handles)
              /\ \A j \in DOMAIN ports \ {i} :
                    j \in DOMAIN ports' /\ ports'[j] = ports[j]
              /\ \A h \in Handles :
                    (i \notin DOMAIN ports \/ h # ports[i]) =>
                        handles'[h] = handles[h]
              /\ Len(handles') = Len(handles)]_vars

\* the newest handle is closed and in no entry, which only close_port does to a
\* handle no later open replaced, and another identifier still has its open handle
C9_Witness ==
    /\ Len(handles) >= 2
    /\ ~handles[Len(handles)].is_open
    /\ ~Registered(Len(handles))
    /\ \E j \in DOMAIN ports : handles[ports[j]].is_open

\* C10: in every reachable state no handle is the entry of two identifiers and
\* every open handle is the registry's entry of some identifier: opens and closes,
\* each run whole under the lock, never leave an open handle orphaned.
C10_NoOpenHandleOrphaned ==
    /\ \A h \in Handles : handles[h].is_open => Registered(h)
    /\ \A i, j \in DOMAIN ports : ports[i] = ports[j] => i = j
    /\ \A i \in DOMAIN ports : ports[i] \in Handles

\* an identifier was opened twice: the first handle is closed and in no entry,
\* the second is open and is the entry
C10_Witness ==
    \E i \in DOMAIN ports :
        /\ ports[i] = 2
        /\ handles[2].is_open
        /\ ~handles[1].is_open
        /\ ~Registered(1)

\* C11: for an identifier with no entry in self.ports, send_message returns
\* False and get_messages returns [] in the very step in which the thread holds
\* the lock, whatever the timeout (the thread never enters the loop and never
\* blocks); neither call changes self.ports, a handle, an inbox, the frames
\* given to the driver or the lock.
C11_UnknownIdentifier ==
    [][\A i \in Ids : i \notin DOMAIN ports =>
          /\ ~SendReturn(i)
          /\ \A m \in Frames : send_message(i, m) => UNCHANGED vars
          /\ \A t \in Threads, T \in Timeouts :
                (lock = Unlocked /\ (get_messages_call(t, i, T)
                                       \/ get_messages_lock(t, i, T)))
                   => /\ pc'[t] = "idle"
                      /\ frame'[t] = NoFrame
                      /\ UNCHANGED <<handles, ports, lock, wire,
                                     arrivals, delivered>>]_vars

\* an identifier is unknown while another one has an inbox with a message and a
\* thread waits at the lock behind a drain with timeout > 0
C11_Witness ==
    \E i \in Ids, t, u \in Threads :
        /\ i \notin DOMAIN ports
        /\ pc[t] = "acquire"
        /\ pc[u] = "blocked"
        /\ frame[u].timeout > 0


\* C12: a POST /port/<port_id> whose name or type is absent or empty, or whose
\* type is neither input nor output, changes nothing: self.ports and every
\* handle (an open one under that identifier included) are as before.
C12_BadRequestTouchesNothing ==
    [][\/ UNCHANGED <<handles, ports, lock, arrivals, delivered>>
       \/ \A i \in Ids, data \in Bodies :
             (data.name = NoName \/ data.type = NoType
                 \/ data.type \notin {"input", "output"})
                => ~open_port_route(i, data)]_vars

\* an open handle is registered, with a message in its inbox, while a drain
\* on it holds the lock: the state a rejected request must leave as it is
C12_Witness ==
    \E i \in DOMAIN ports, t \in Threads :
        /\ handles[ports[i]].is_open
        /\ handles[ports[i]].message_queue # <<>>
        /\ lock = t


\* C18: a thread waiting inside queue.get for its timeout does not hold
\* MidiServer.lock, so that open_port, close_port, send_message and
\* get_messages on other identifiers can run before its deadline.
C18_NoLockAcrossBlockingWait ==
    \A t \in Threads :
        (pc[t] = "blocked" /\ frame[t].timeout > 0 /\ frame[t].left > 0)
           => /\ lock # t
              /\ \A i \in Ids \ {frame[t].port_id} : ENABLED close_port(i)

\* C19: a thread that holds MidiServer.lock is not inside a call on an inbox
\* queue (queue.get takes the queue's own mutex and waits on its condition),
\* and in every state with a thread inside get_messages some thread or the
\* clock can take a step.
C19_OneLockAtATime ==
    /\ \A t \in Threads : lock = t => ~Draining(t)
    /\ (\E t \in Threads : pc[t] # "idle")
          => ENABLED (Tick \/ \E t \in Threads :
                                 \/ queue_get(t)
                                 \/ queue_wake(t)
                                 \/ \E i \in Ids, T \in Timeouts :
                                       get_messages_lock(t, i, T))


\* C20: for every open input handle the driver's callback can append in every
\* state in which the driver has a message to deliver, whoever holds
\* MidiServer.lock and wherever the request threads are (idle, waiting at the
\* lock, inside a drain on this or another handle, blocked in queue.get); and
\* each callback lengthens the inbox by one, whatever its length.
C20_RouterNeverWaits ==
    /\ [](\A h \in InputHandles :
            (handles[h].is_open /\ SumTo(arrivals, Len(arrivals)) < MaxArrivals)
               => ENABLED on_message(h))
    /\ [][\A h \in InputHandles : on_message(h) =>
            handles'[h].message_queue
               = Append(handles[h].message_queue, arrivals[h] + 1)]_vars

\* a message arrived on a non-empty inbox while one thread was blocked in its
\* drain holding the lock and the other waited at the lock
C20_Witness ==
    \E t, u \in Threads :
        /\ pc[t] = "blocked"
        /\ lock = t
        /\ pc[u] = "acquire"
        /\ arrivals[frame[t].port] > frame[t].a0
        /\ Len(handles[frame[t].port].message_queue) > 0


\* the statement of the run that is executed in this step, if any
OrchStep ==
    \/ orch_open \/ orch_send \/ orch_handshake \/ orch_query \/ orch_read
    \/ orch_close \/ orch_return

\* C13: once test_lcxl3 has returned, with success or with an error, none of
\* midi_out, midi_in, daw_out, daw_in is in self.ports and no handle is open.
C13_ReturnedRunClosedAllPorts ==
    run.pc = Done =>
        /\ \A i \in OrchIds : i \notin DOMAIN ports
        /\ \A h \in Handles : ~handles[h].is_open

\* C14: when one of the four open_port calls returned False, the run is past
\* the slot loop (at the close_port calls or returned) as soon as it is past
\* the opening, it has sent no frame, and it returns success = False.
C14_FailedOpenAbortsRun ==
    (run.pc > Len(Opening) /\ run.opened # OrchIds) =>
        /\ run.pc > Len(Opening \o Handshaking \o SlotLoop)
        /\ wire = <<>>
        /\ run.pc = Done => run.ret = "error"


\* a reply to a slot read that qualifies: SysEx, longer than 20 bytes, with
\* the read type in byte 8
QualifiesAsRead(resp) == Len(resp) > 20 /\ resp[1] = 240 /\ resp[9] = 16

\* the slots of the slot lines in results, in order
SlotsReported ==
    LET lines == SelectSeq(run.results, LAMBDA r : r.kind = "Slot")
    IN  [k \in 1..Len(lines) |-> lines[k].slot]

\* C15: whatever the device sends or leaves out, every drain of the slot loop
\* is followed by the next statement (no reply makes the run leave the loop);
\* the slot read of slot s appends one slot line for s exactly when a drained
\* reply qualifies; the slot lines are for increasing slots in 0..2; and the
\* run returns success.
C15_SlotLoopAlwaysCompletes ==
    /\ [](/\ StrictlyIncreasing(SlotsReported)
          /\ \A k \in 1..Len(SlotsReported) : SlotsReported[k] \in 0..2
          /\ run.pc = Done => run.ret = "success")
    /\ [][/\ (orch_query \/ orch_read) => run'.pc = run.pc + 1
          /\ orch_read =>
               LET responses == InboxOf("midi_in")
                   slot == Program[run.pc].slot
               IN  IF \E k \in 1..Len(responses) : QualifiesAsRead(responses[k])
                   THEN /\ Len(run'.results) = Len(run.results) + 1
                        /\ run'.results[Len(run'.results)].slot = slot
                   ELSE run'.results = run.results]_vars


\* a reply that qualifies as a handshake: starts with 0xF0 and is longer than 7
QualifiesAsHandshake(resp) == Len(resp) > 7 /\ resp[1] = 240

\* the characters of bytes 7 .. end-1 of a frame (those that are ASCII)
DecodeBytes7ToEnd(resp) ==
    LET idx == {k \in 8..(Len(resp) - 1) : resp[k] < 128}
        nth[n \in 1..Cardinality(idx)] ==
            CHOOSE k \in idx : Cardinality({j \in idx : j < k}) = n - 1
    IN  [n \in 1..Cardinality(idx) |-> resp[nth[n]]]

\* C17: the drain of midi_in after the inquiry appends a handshake line exactly
\* when one of the drained messages starts with 0xF0 and is longer than 7; the
\* line carries the decoding of bytes 7..end-1 of the first such message; and
\* results never holds a handshake line anywhere but in first place.
C17_HandshakeNarrative ==
    /\ [](\A k \in 1..Len(run.results) :
             run.results[k].kind = "Handshake OK - Serial" => k = 1)
    /\ [][orch_handshake =>
            LET responses == InboxOf("midi_in")
                hits == {k \in 1..Len(responses) :
                            QualifiesAsHandshake(responses[k])}
            IN  IF hits = {}
                THEN run'.results = <<>>
                ELSE /\ Len(run'.results) = 1
                     /\ run'.results[1].kind = "Handshake OK - Serial"
                     /\ run'.results[1].text
                           = DecodeBytes7ToEnd(responses[Least(hits)])]_vars

\* the run has recorded the serial "AB" of the first identity reply, which came
\* after a short SysEx and before a second identity reply
C17_Witness ==
    /\ run.pc > Len(Opening \o Handshaking)
    /\ Len(run.results) >= 1
    /\ run.results[1] = HandshakeOK(<<65, 66>>)
    /\ "midi_in" \in DOMAIN ports
    /\ delivered[ports["midi_in"]] = <<SHORT_SYSEX, IDENTITY_A, IDENTITY_B>>


\* ------------------------------------- test_lcxl3 next to another request
\* the identifier and the thread of the concurrent requests
Rival == "t1"
RivalIds == {"daw_in"}

\* the run, the device's DAW channel, and a second request thread that drains
\* (with every timeout) and closes the run's daw_in
NextRival ==
    \/ OrchStep
    \/ device_react("daw")
    \/ device_deliver("daw")
    \/ Tick
    \/ \E i \in RivalIds : close_port(i)
    \/ \E i \in RivalIds, T \in Timeouts : get_messages_call(Rival, i, T)
    \/ queue_get(Rival)
    \/ queue_wake(Rival)

\* every thread that can run does run, the clock advances, and a thread
\* waiting for the lock gets it at one of the moments it is free
Fairness ==
    /\ SF_vars(OrchStep)
    /\ WF_vars(Tick)
    /\ WF_vars(queue_get(Rival))
    /\ WF_vars(queue_wake(Rival))

SpecRival == InitOrch /\ [][NextRival]_vars /\ Fairness

C21_ShiftAlwaysReleased ==
    \A k \in 1..Len(wire) :
        wire[k][2] = <<159, 11, 127>> =>
            LET offs == {j \in (k + 1)..Len(wire) : wire[j][2] = <<159, 11, 0>>}
                stop == IF offs = {} THEN Len(wire) + 1 ELSE Least(offs)
            IN  /\ \A m \in (k + 1)..(stop - 1) :
                      /\ wire[m][2] # <<159, 11, 127>>
                      /\ wire[m][2][1] # 240
                /\ offs = {} => run.pc # Done


\* ------------------------------------- the query of slot 0, for every value
\* the bytes a CC value can be
ValueBytes == 0..127

\* the run is at the drain of daw_in in slot 0: the four ports are open, the
\* inquiry went unanswered, the shift Note-On and the query are sent, and the
\* device's answer [0xB6, 30, v] is in the inbox of daw_in
AtQueryWith(v) ==
    /\ device = [Unplugged EXCEPT !.plugged = "all", !.seen.daw = 3]
    /\ handles =
          << MidiPort_open(LCXL3_MIDI_IN, "output", get_ports("output")),
             MidiPort_open(LCXL3_MIDI_OUT, "input", get_ports("input")),
             MidiPort_open(LCXL3_DAW_IN, "output", get_ports("output")),
             [MidiPort_open(LCXL3_DAW_OUT, "input", get_ports("input"))
                EXCEPT !.message_queue = <<SlotCC(v)>>] >>
    /\ ports = [i \in OrchIds |->
                  IF i = "midi_out" THEN 1 ELSE IF i = "midi_in" THEN 2
                  ELSE IF i = "daw_out" THEN 3 ELSE 4]
    /\ lock = Unlocked
    /\ pc = [t \in Threads |-> "idle"]
    /\ frame = [t \in Threads |-> NoFrame]
    /\ wire = << <<1, INQUIRY>>, <<2, SHIFT_ON>>, <<2, QUERY>> >>
    /\ arrivals = <<0, 0, 0, 1>>
    /\ delivered = <<<<>>, <<>>, <<>>, <<>>>>
    /\ run = [NoRun EXCEPT !.pc = 9, !.opened = OrchIds]

InitQuery == \E v \in ValueBytes : AtQueryWith(v)

\* the run goes on from there; the device sends nothing more
NextQuery ==
    \/ orch_query
    \/ orch_send
    \/ orch_read
    \/ orch_close
    \/ orch_return

SpecQuery == InitQuery /\ [][NextQuery]_vars

\* C22: the current slot the run holds, and the one in each slot line, is 0, 1,
\* 2 or None, whatever value byte the device put in its [0xB6, 30, v].
C22_CurrentSlotInRange ==
    /\ run.current_slot \in {0, 1, 2, NoSlot}
    /\ \A k \in 1..Len(run.results) :
          run.results[k].current \in {0, 1, 2, NoSlot}


\* the frames of one slot, with the index of the driver's output port:
\* 1 is 'LCXL3 1 MIDI In' (device-out), 2 is 'LCXL3 1 DAW In' (control-out)
SlotFrames(s) ==
    << <<2, <<159, 11, 127>>>>, <<2, <<183, 30, 0>>>>, <<2, <<159, 11, 0>>>>,
       <<2, <<159, 11, 127>>>>, <<2, <<182, 30, s + 6>>>>, <<2, <<159, 11, 0>>>>,
       <<1, <<240, 0, 32, 41, 2, 21, 5, 0, 64, 0, s, 247>>>> >>

\* the frames of a whole run
RunFrames ==
    << <<1, <<240, 0, 32, 41, 0, 66, 2, 247>>>> >>
       \o SlotFrames(0) \o SlotFrames(1) \o SlotFrames(2)

\* C23: in a run whose four ports opened, the frames given to the driver are
\* at every moment the first frames of: the inquiry on device-out; then for
\* s = 0, 1, 2 the shift Note-On, the query CC and the Note-Off, the shift
\* Note-On, the set CC with value s + 6 and the Note-Off on control-out, and
\* the read request for slot s on device-out. A run that returns success has
\* sent them all, and no frame is sent from the first close_port on.
C23_FramesInStateOrder ==
    /\ [](run.opened = OrchIds =>
            /\ IsPrefix(wire, RunFrames)
            /\ (run.pc = Done /\ run.ret = "success") => wire = RunFrames)
    /\ [][run.pc > Len(Opening \o Handshaking \o SlotLoop)
             => wire' = wire]_vars

\* a run with all replies has returned success after sending every frame
C23_Witness ==
    /\ run.pc = Done
    /\ run.ret = "success"
    /\ run.opened = OrchIds
    /\ wire = RunFrames
    /\ Len(run.results) = 4


\* C24: the name in the slot line of slot s is the name in the device's reply
\* to the read request for slot s ("S0", "S1", "S2" for this device), never the
\* name from the reply to the read request of an earlier slot.
C24_NameFromOwnReply ==
    \A k \in 1..Len(run.results) :
        run.results[k].kind = "Slot" =>
            run.results[k].text = <<83, 48 + run.results[k].slot>>


\* the run is past the opening and before the first close_port
InSequence ==
    /\ run.pc > Len(Opening)
    /\ run.pc <= Len(Opening \o Handshaking \o SlotLoop)

\* C25: between the opening and the close_port calls, every identifier the run
\* opened is in self.ports with an open handle, and no other thread has taken
\* or is taking messages out of the inbox of one of the run's input ports,
\* whatever other requests do to those identifiers.
C25_RunKeepsItsPorts ==
    InSequence =>
        /\ \A i \in run.opened :
              /\ i \in DOMAIN ports
              /\ handles[ports[i]].is_open
        /\ \A t \in Threads : Draining(t) => frame[t].messages = <<>>


\* C26: the step that creates a handle (a successful open_port) gives it an
\* empty inbox, no arrivals and no results; a handle it replaces under the
\* identifier is closed, out of self.ports, and keeps its undrained messages.
\* No drain returns or takes a message of a handle that is in self.ports under
\* no identifier, and what the drains of a registered input handle return is
\* drawn from the messages that arrived on that handle.
C26_ReplacedInboxNeverReturned ==
    /\ [](\A h \in InputHandles :
            Registered(h) =>
               Len(delivered[h]) + Len(Collected(h))
                  + Len(handles[h].message_queue) = arrivals[h])
    /\ [][/\ Len(handles') > Len(handles) =>
               LET new == Len(handles') IN
               /\ handles'[new].message_queue = <<>>
               /\ arrivals'[new] = 0
               /\ delivered'[new] = <<>>
               /\ \A i \in DOMAIN ports :
                     ports'[i] = new =>
                        /\ ~handles'[ports[i]].is_open
                        /\ \A j \in DOMAIN ports' : ports'[j] # ports[i]
                        /\ handles'[ports[i]].message_queue
                              = handles[ports[i]].message_queue
          /\ \A h \in Handles :
                ~Registered(h) =>
                   /\ delivered'[h] = delivered[h]
                   /\ handles'[h].message_queue = handles[h].message_queue]_vars

\* the first input handle was replaced with a message left in its inbox, and
\* a drain of the identifier has returned the message that came on the new one
C26_Witness ==
    /\ Len(handles) = 2
    /\ handles[1].port_type = "input"
    /\ handles[2].port_type = "input"
    /\ ~Registered(1)
    /\ handles[1].message_queue = <<1>>
    /\ Registered(2)
    /\ delivered[2] = <<1>>

====
